---- MODULE Spec2Model ----
(***************************************************************************)
(* A model of the rhythm engine of personal-piano-app: Transport,          *)
(* HitDetection, ScoringEngine, ChartParser and GameEngine, with the       *)
(* browser's frame scheduler (requestAnimationFrame) and monotonic clock   *)
(* (performance.now) as the environment.                                   *)
(*                                                                         *)
(* JavaScript values are represented as follows.  null for the chart is    *)
(* the empty sequence and a loaded chart is a one-element sequence; null   *)
(* for a time is NullTime; null for animationFrameId is 0 (the code tests  *)
(* it for truthiness, and frame handles start at 1); a hitResult of null   *)
(* is the string "null".  An optional result (a match, a summary) is a     *)
(* sequence of length 0 or 1.                                              *)
(***************************************************************************)
EXTENDS Integers, Sequences, FiniteSets, TLC

\* ------------------------------------------------------------------ bounds
\* The instants at which the clock is observed: MaxFineSteps steps of
\* ClockStepMs from 0, then LateInstantMs, past the end of every chart.
ClockStepMs == 60
MaxFineSteps == 3
LateInstantMs == 720
\* At most this many WRONG_NOTE records per scoring session.
MaxWrongNotes == 1
\* At most this many frame callbacks pending at once.
MaxPending == 2
\* Raw charts handed to parseChart alone: at most MaxRawNotes elements, with
\* times 0..MaxRawTimeMs.
MaxRawNotes == 2
MaxRawTimeMs == 1
\* Hit windows handed to the HitDetection functions alone: thresholds
\* 0..MaxWindowMs; candidate lists of at most MaxCandidates notes.
MaxWindowMs == 3
MaxCandidates == 2
\* A ScoringEngine alone: it has recorded PriorMisses misses or none, then a
\* run of up to MaxStreak successes, and takes up to MaxCalls further calls.
PriorMisses == 17
MaxStreak == 40
MaxCalls == 2

\* ------------------------------------------------------- program constants
PerfectWindowMs == 60
GreatWindowMs == 120
GoodWindowMs == 180
DefaultDurationMs == 400
FinishSlackMs == 500
LookAheadMs == 3000
VisibleBehindMs == 500
\* noteSpeedPxPerMs, 0.3, in tenths of a pixel per millisecond.
NoteSpeedTenths == 3
NotesPerMultiplier == 10
MaxMultiplier == 4
BasePerfect == 100
BaseGreat == 70
BaseGood == 40
BaseMiss == 0
BaseWrongNote == 0
MidiMax == 127
NullTime == -1
NullMidi == -1
NullFrameId == 0

IDLE == "idle"
PLAYING == "playing"
PAUSED == "paused"
FINISHED == "finished"
GameState == {IDLE, PLAYING, PAUSED, FINISHED}

PERFECT == "perfect"
GREAT == "great"
GOOD == "good"
MISS == "miss"
WRONG_NOTE == "wrong_note"
HitResult == {PERFECT, GREAT, GOOD, MISS, WRONG_NOTE}
NullResult == "null"

DEFAULT_HIT_WINDOWS == [perfect |-> PerfectWindowMs, great |-> GreatWindowMs, good |-> GoodWindowMs]

Abs(x) == IF x < 0 THEN -x ELSE x
Min(a, b) == IF a < b THEN a ELSE b
Max(a, b) == IF a > b THEN a ELSE b

\* ------------------------------------------------------------ HitDetection
\* Mutant of classifyHit: a delta on a threshold falls to the next class.
classifyHitExclusive(deltaMs, correctNote, windows) ==
  IF ~correctNote THEN WRONG_NOTE
  ELSE LET absDelta == Abs(deltaMs) IN
       IF absDelta < windows.perfect THEN PERFECT
       ELSE IF absDelta < windows.great THEN GREAT
       ELSE IF absDelta < windows.good THEN GOOD
       ELSE MISS

\* Mutant of classifyHit: a delta on the good threshold is a MISS.
classifyHitStrictGood(deltaMs, correctNote, windows) ==
  IF ~correctNote THEN WRONG_NOTE
  ELSE LET absDelta == Abs(deltaMs) IN
       IF absDelta <= windows.perfect THEN PERFECT
       ELSE IF absDelta <= windows.great THEN GREAT
       ELSE IF absDelta < windows.good THEN GOOD
       ELSE MISS

classifyHit(deltaMs, correctNote, windows) ==
  IF ~correctNote THEN WRONG_NOTE
  ELSE LET absDelta == Abs(deltaMs) IN
       IF absDelta <= windows.perfect THEN PERFECT
       ELSE IF absDelta <= windows.great THEN GREAT
       ELSE IF absDelta <= windows.good THEN GOOD
       ELSE MISS

\* Mutant of isNoteMissed: missed already at the end of the good window.
isNoteMissedAtWindowEnd(noteTimeMs, currentTimeMs, windows) ==
  currentTimeMs >= noteTimeMs + windows.good

isNoteMissed(noteTimeMs, currentTimeMs, windows) ==
  currentTimeMs > noteTimeMs + windows.good

isNoteHittable(noteTimeMs, currentTimeMs, windows) ==
  Abs(currentTimeMs - noteTimeMs) <= windows.good

\* Mutant of MatchStep: a candidate as close as the best so far replaces it.
MatchStepLatest(best, k, midiNote, currentTimeMs, activeNotes, windows) ==
  LET note == activeNotes[k]
      delta == Abs(currentTimeMs - note.timeMs)
  IN IF note.midi # midiNote \/ note.midiHalf THEN best
     ELSE IF note.hit THEN best
     ELSE IF delta <= windows.good /\ (best = <<>> \/ delta <= best[1].delta)
          THEN <<[k |-> k, delta |-> delta, hitResult |-> classifyHit(delta, TRUE, windows)]>>
          ELSE best

\* Mutant of MatchStep: the pitch is not compared.
MatchStepAnyPitch(best, k, midiNote, currentTimeMs, activeNotes, windows) ==
  LET note == activeNotes[k]
      delta == Abs(currentTimeMs - note.timeMs)
  IN IF note.hit THEN best
     ELSE IF delta <= windows.good /\ (best = <<>> \/ delta < best[1].delta)
          THEN <<[k |-> k, delta |-> delta, hitResult |-> classifyHit(delta, TRUE, windows)]>>
          ELSE best

\* One iteration of findBestMatch's loop: best is the match so far (<<>> for
\* null, whose bestDelta is Infinity), k the position in activeNotes.
MatchStep(best, k, midiNote, currentTimeMs, activeNotes, windows) ==
  LET note == activeNotes[k]
      delta == Abs(currentTimeMs - note.timeMs)
  IN IF note.midi # midiNote \/ note.midiHalf THEN best
     ELSE IF note.hit THEN best
     ELSE IF delta <= windows.good /\ (best = <<>> \/ delta < best[1].delta)
          THEN <<[k |-> k, delta |-> delta, hitResult |-> classifyHit(delta, TRUE, windows)]>>
          ELSE best

RECURSIVE MatchLoop(_, _, _, _, _, _)
MatchLoop(best, k, midiNote, currentTimeMs, activeNotes, windows) ==
  IF k > Len(activeNotes) THEN best
  ELSE MatchLoop(MatchStep(best, k, midiNote, currentTimeMs, activeNotes, windows),
                 k + 1, midiNote, currentTimeMs, activeNotes, windows)

\* <<>> for null, else <<[k, delta, hitResult]>> with k the matched note's
\* position in activeNotes (the code returns the note object itself).
findBestMatch(midiNote, currentTimeMs, activeNotes, windows) ==
  MatchLoop(<<>>, 1, midiNote, currentTimeMs, activeNotes, windows)

\* ----------------------------------------------------------------- Scoring
BASE_SCORES(hitResult) ==
  CASE hitResult = PERFECT -> BasePerfect
    [] hitResult = GREAT -> BaseGreat
    [] hitResult = GOOD -> BaseGood
    [] hitResult = MISS -> BaseMiss
    [] hitResult = WRONG_NOTE -> BaseWrongNote

ScoringReset ==
  [score |-> 0, streak |-> 0, maxStreak |-> 0,
   hitCounts |-> [h \in HitResult |-> 0],
   totalNotes |-> 0, mistakes |-> <<>>]

getMultiplier(sc) ==
  Min(1 + (sc.streak \div NotesPerMultiplier), MaxMultiplier)

IsMissKind(hitResult) == hitResult = MISS \/ hitResult = WRONG_NOTE

\* Mutant of recordHit: the multiplier is read before the streak is updated.
recordHitMultiplierFirst(sc, hitResult, noteInfo) ==
  LET counted == [sc EXCEPT !.hitCounts[hitResult] = @ + 1, !.totalNotes = @ + 1]
      multiplier == getMultiplier(sc)
      streaked ==
        IF IsMissKind(hitResult)
        THEN [counted EXCEPT !.streak = 0]
        ELSE [counted EXCEPT !.streak = @ + 1,
                             !.maxStreak = Max(@, counted.streak + 1)]
      basePoints == BASE_SCORES(hitResult)
      points == basePoints * multiplier
  IN [sc |-> [streaked EXCEPT !.score = @ + points],
      result |-> [points |-> points, multiplier |-> multiplier,
                  newStreak |-> streaked.streak, basePoints |-> basePoints]]

\* Mutant of recordHit: maxStreak is only brought up to date on a miss.
recordHitMaxOnMiss(sc, hitResult, noteInfo) ==
  LET counted == [sc EXCEPT !.hitCounts[hitResult] = @ + 1, !.totalNotes = @ + 1]
      streaked ==
        IF IsMissKind(hitResult)
        THEN [counted EXCEPT !.maxStreak = Max(@, counted.streak), !.streak = 0]
        ELSE [counted EXCEPT !.streak = @ + 1]
      multiplier == getMultiplier(streaked)
      basePoints == BASE_SCORES(hitResult)
      points == basePoints * multiplier
  IN [sc |-> [streaked EXCEPT !.score = @ + points],
      result |-> [points |-> points, multiplier |-> multiplier,
                  newStreak |-> streaked.streak, basePoints |-> basePoints]]

\* recordHit: the scoring state after the call (sc) and the value returned
\* (result).  noteInfo is <<>> for null, else <<info>>.
\* Mutant of recordHit: a wrong note is logged but not counted in totalNotes.
recordHitUncountedWrongNote(sc, hitResult, noteInfo) ==
  LET counted == [sc EXCEPT !.hitCounts[hitResult] = @ + 1,
                            !.totalNotes = IF hitResult = WRONG_NOTE THEN @ ELSE @ + 1]
      streaked ==
        IF IsMissKind(hitResult)
        THEN [counted EXCEPT
                !.mistakes = IF noteInfo # <<>>
                             THEN Append(@, [noteId |-> noteInfo[1].noteId,
                                             expectedMidi |-> noteInfo[1].expectedMidi,
                                             actualMidi |-> noteInfo[1].actualMidi,
                                             deltaMs |-> noteInfo[1].deltaMs,
                                             hitResult |-> hitResult])
                             ELSE @,
                !.streak = 0]
        ELSE [counted EXCEPT !.streak = @ + 1,
                             !.maxStreak = Max(@, counted.streak + 1)]
      multiplier == getMultiplier(streaked)
      basePoints == BASE_SCORES(hitResult)
      points == basePoints * multiplier
  IN [sc |-> [streaked EXCEPT !.score = @ + points],
      result |-> [points |-> points, multiplier |-> multiplier,
                  newStreak |-> streaked.streak, basePoints |-> basePoints]]

recordHit(sc, hitResult, noteInfo) ==
  LET counted == [sc EXCEPT !.hitCounts[hitResult] = @ + 1, !.totalNotes = @ + 1]
      streaked ==
        IF IsMissKind(hitResult)
        THEN [counted EXCEPT
                !.mistakes = IF noteInfo # <<>>
                             THEN Append(@, [noteId |-> noteInfo[1].noteId,
                                             expectedMidi |-> noteInfo[1].expectedMidi,
                                             actualMidi |-> noteInfo[1].actualMidi,
                                             deltaMs |-> noteInfo[1].deltaMs,
                                             hitResult |-> hitResult])
                             ELSE @,
                !.streak = 0]
        ELSE [counted EXCEPT !.streak = @ + 1,
                             !.maxStreak = Max(@, counted.streak + 1)]
      multiplier == getMultiplier(streaked)
      basePoints == BASE_SCORES(hitResult)
      points == basePoints * multiplier
  IN [sc |-> [streaked EXCEPT !.score = @ + points],
      result |-> [points |-> points, multiplier |-> multiplier,
                  newStreak |-> streaked.streak, basePoints |-> basePoints]]

\* Math.round(x) of a non-negative quotient n/d is floor(n/d + 1/2).
RoundDiv(n, d) == (2 * n + d) \div (2 * d)

\* (successful / totalNotes) * 100 is computed in IEEE-754 doubles, the
\* quotient rounded before the product.  For totalNotes below 120 the product
\* rounds as the exact value of 100 * successful / totalNotes does, except for
\* 23/40 and 46/80, where it is 57.49999999999999 and not 57.5.
DoubleFallsShort(successful, totalNotes) ==
  <<successful, totalNotes>> \in {<<23, 40>>, <<46, 80>>}

getAccuracy(sc) ==
  IF sc.totalNotes = 0 THEN 100
  ELSE LET successful == sc.hitCounts[PERFECT] + sc.hitCounts[GREAT] + sc.hitCounts[GOOD] IN
       IF DoubleFallsShort(successful, sc.totalNotes)
       THEN RoundDiv(100 * successful, sc.totalNotes) - 1
       ELSE RoundDiv(100 * successful, sc.totalNotes)

getStars(sc) ==
  LET accuracy == getAccuracy(sc) IN
  IF accuracy >= 90 THEN 3 ELSE IF accuracy >= 70 THEN 2 ELSE 1

getSummary(sc) ==
  [score |-> sc.score, accuracy |-> getAccuracy(sc), stars |-> getStars(sc),
   maxStreak |-> sc.maxStreak, hitCounts |-> sc.hitCounts,
   totalNotes |-> sc.totalNotes, mistakes |-> sc.mistakes]

calculateScore(hitResult, streak) ==
  LET effectiveStreak == IF IsMissKind(hitResult) THEN 0 ELSE streak
      multiplier == Min(1 + (effectiveStreak \div NotesPerMultiplier), MaxMultiplier)
      basePoints == BASE_SCORES(hitResult)
  IN [points |-> basePoints * multiplier, multiplier |-> multiplier, basePoints |-> basePoints]

\* --------------------------------------------------------------- Transport
TransportInit ==
  [startTime |-> NullTime, pauseTime |-> NullTime, pausedDuration |-> 0,
   isPlaying |-> FALSE, isPaused |-> FALSE]

\* Mutant of TransportStart: resuming does not account for the paused interval.
TransportStartForgetsPause(tr, t) ==
  IF tr.isPlaying /\ ~tr.isPaused THEN tr
  ELSE IF tr.isPaused /\ tr.pauseTime # NullTime
       THEN [tr EXCEPT !.pauseTime = NullTime, !.isPaused = FALSE, !.isPlaying = TRUE]
       ELSE [tr EXCEPT !.startTime = t, !.pausedDuration = 0,
                       !.pauseTime = NullTime, !.isPlaying = TRUE]

\* t is performance.now() at the call.
TransportStart(tr, t) ==
  IF tr.isPlaying /\ ~tr.isPaused THEN tr
  ELSE IF tr.isPaused /\ tr.pauseTime # NullTime
       THEN [tr EXCEPT !.pausedDuration = @ + (t - tr.pauseTime),
                       !.pauseTime = NullTime, !.isPaused = FALSE, !.isPlaying = TRUE]
       ELSE [tr EXCEPT !.startTime = t, !.pausedDuration = 0,
                       !.pauseTime = NullTime, !.isPlaying = TRUE]

TransportPause(tr, t) ==
  IF ~tr.isPlaying \/ tr.isPaused THEN tr
  ELSE [tr EXCEPT !.pauseTime = t, !.isPaused = TRUE]

TransportStop(tr) == TransportInit

getCurrentTimeMs(tr, t) ==
  IF ~tr.isPlaying \/ tr.startTime = NullTime THEN 0
  ELSE IF tr.isPaused /\ tr.pauseTime # NullTime
       THEN tr.pauseTime - tr.startTime - tr.pausedDuration
       ELSE t - tr.startTime - tr.pausedDuration

isActive(tr) == tr.isPlaying /\ ~tr.isPaused

\* Mutant of seekTo: the paused-duration accumulator is kept.
seekToKeepsPausedDuration(tr, timeMs, t) ==
  LET started == IF ~tr.isPlaying THEN TransportStart(tr, t) ELSE tr
      moved == [started EXCEPT !.startTime = t - timeMs]
  IN IF moved.isPaused THEN [moved EXCEPT !.pauseTime = t] ELSE moved

seekTo(tr, timeMs, t) ==
  LET started == IF ~tr.isPlaying THEN TransportStart(tr, t) ELSE tr
      moved == [started EXCEPT !.startTime = t - timeMs, !.pausedDuration = 0]
  IN IF moved.isPaused THEN [moved EXCEPT !.pauseTime = t] ELSE moved

\* ------------------------------------------------------------- ChartParser
\* A JavaScript value of a raw chart field: undefined, a number or a string.
\* A number is v, or v + 1/2 when half is set (a number that is no integer).
Undef == [t |-> "undefined", v |-> 0, half |-> FALSE]
Num(n) == [t |-> "number", v |-> n, half |-> FALSE]
NumHalf(n) == [t |-> "number", v |-> n, half |-> TRUE]
Str == [t |-> "string", v |-> 0, half |-> FALSE]

\* x < k and x > k for a number x and an integer k.
LessThan(x, k) == x.v < k
GreaterThan(x, k) == IF x.half THEN x.v >= k ELSE x.v > k

\* a ?? b
Nullish(a, b) == IF a.t = "undefined" THEN b ELSE a

NoteNames == <<"C", "C#", "D", "D#", "E", "F", "F#", "G", "G#", "A", "A#", "B">>

\* MIDI_TO_NOTE[midi] || `M${midi}`: the table covers 48 (C3) to 77 (F5).
MIDI_TO_NOTE(midi) ==
  IF midi \in 48..77
  THEN NoteNames[(midi % 12) + 1] \o ToString((midi \div 12) - 1)
  ELSE "M" \o ToString(midi)

\* The display name of a pitch given as a raw value: no key of the table is a
\* number with a fraction.
NoteNameOf(midi) ==
  IF midi.half THEN "M" \o ToString(midi.v) \o ".5" ELSE MIDI_TO_NOTE(midi.v)

\* The checks of one element of chartData.notes: "" when it passes.
NoteError(note) ==
  LET timeMs == Nullish(note.timeMs, note.time) IN
  IF timeMs.t # "number" \/ LessThan(timeMs, 0) THEN "invalid timeMs"
  ELSE IF note.midi.t # "number" \/ LessThan(note.midi, 0) \/ GreaterThan(note.midi, MidiMax)
       THEN "invalid midi number"
       ELSE ""

\* The note built from the element at (0-based) index.  The times of the
\* raw charts considered are whole numbers; a pitch that is no integer is
\* midi + 1/2, flagged by midiHalf.
ParsedNote(note, index) ==
  [id |-> "note-" \o ToString(index),
   timeMs |-> Nullish(note.timeMs, note.time).v,
   midi |-> note.midi.v,
   midiHalf |-> note.midi.half,
   durationMs |-> Nullish(Nullish(note.durationMs, note.duration), Num(DefaultDurationMs)).v,
   noteName |-> NoteNameOf(note.midi),
   hit |-> FALSE,
   hitResult |-> NullResult]

\* Mutant of InsertByTime: a note goes in front of the notes of its own time.
RECURSIVE InsertByTimeUnstable(_, _)
InsertByTimeUnstable(sorted, note) ==
  IF sorted = <<>> THEN <<note>>
  ELSE IF sorted[Len(sorted)].timeMs < note.timeMs THEN Append(sorted, note)
  ELSE Append(InsertByTimeUnstable(SubSeq(sorted, 1, Len(sorted) - 1), note), sorted[Len(sorted)])

\* Array.prototype.sort with (a, b) => a.timeMs - b.timeMs: a stable sort.
RECURSIVE InsertByTime(_, _)
InsertByTime(sorted, note) ==
  IF sorted = <<>> THEN <<note>>
  ELSE IF sorted[Len(sorted)].timeMs <= note.timeMs THEN Append(sorted, note)
  ELSE Append(InsertByTime(SubSeq(sorted, 1, Len(sorted) - 1), note), sorted[Len(sorted)])

RECURSIVE SortByTime(_)
SortByTime(ns) ==
  IF ns = <<>> THEN <<>>
  ELSE InsertByTime(SortByTime(SubSeq(ns, 1, Len(ns) - 1)), ns[Len(ns)])

ChartDuration(parsedNotes) ==
  IF Len(parsedNotes) > 0
  THEN parsedNotes[Len(parsedNotes)].timeMs + parsedNotes[Len(parsedNotes)].durationMs
  ELSE 0

\* The first index (0-based) whose element fails its checks, -1 when none:
\* map() throws at the first failing element.
FirstBadIndex(rawNotes) ==
  IF \E i \in 1..Len(rawNotes) : NoteError(rawNotes[i]) # ""
  THEN (CHOOSE i \in 1..Len(rawNotes) :
          /\ NoteError(rawNotes[i]) # ""
          /\ \A j \in 1..(i - 1) : NoteError(rawNotes[j]) = "") - 1
  ELSE -1

\* parseChart: [ok, error, index, chart]; chart is <<>> when it throws.
parseChart(chartData) ==
  IF ~chartData.isObject \/ ~chartData.notesIsArray
  THEN [ok |-> FALSE, error |-> "Invalid chart: missing notes array", index |-> -1, chart |-> <<>>]
  ELSE LET bad == FirstBadIndex(chartData.notes) IN
       IF bad >= 0
       THEN [ok |-> FALSE, error |-> NoteError(chartData.notes[bad + 1]), index |-> bad, chart |-> <<>>]
       ELSE LET parsedNotes == SortByTime([i \in 1..Len(chartData.notes) |->
                                              ParsedNote(chartData.notes[i], i - 1)])
            IN [ok |-> TRUE, error |-> "", index |-> -1,
                chart |-> <<[notes |-> parsedNotes,
                             duration |-> ChartDuration(parsedNotes),
                             noteCount |-> Len(parsedNotes)]>>]

RawNote(timeMs, time, midi, durationMs, duration) ==
  [timeMs |-> timeMs, time |-> time, midi |-> midi, durationMs |-> durationMs, duration |-> duration]

RawChart(ns) == [isObject |-> TRUE, notesIsArray |-> TRUE, notes |-> ns]

\* The chart payloads a loader hands to loadChart: two notes given out of time
\* order, one through the legacy aliases; and the empty chart.
ChartTwoNotes ==
  RawChart(<<RawNote(Undef, Num(2 * ClockStepMs), Num(62), Undef, Num(ClockStepMs)),
             RawNote(Num(0), Undef, Num(60), Num(ClockStepMs), Undef)>>)
ChartEmpty == RawChart(<<>>)
\* A payload that fails validation at index 1 (a pitch above 127).
ChartBadMidi ==
  RawChart(<<RawNote(Num(0), Undef, Num(60), Undef, Undef),
             RawNote(Num(ClockStepMs), Undef, Num(MidiMax + 1), Undef, Undef)>>)
RawCharts == {ChartTwoNotes, ChartEmpty, ChartBadMidi}

\* The pitches an input device delivers.
Pitches == {60, 62}

\* -------------------------------------------------------------- GameEngine
(***************************************************************************)
(* The operations are functions of a world w: the engine's fields (state,  *)
(* chart, notes, animationFrameId), its ScoringEngine (scoring) and        *)
(* Transport (transport), the scheduler's pending frame callbacks          *)
(* (pending), and what the call in progress has done so far: trace, the    *)
(* calls and callbacks in order; ret and result, the value returned;       *)
(* update and summary, the payloads handed to onUpdate and onFinish.       *)
(* now is performance.now() during the call.                               *)
(*                                                                         *)
(* cb says what the host's callbacks do when invoked: "none" (return at    *)
(* once), "pause" (call engine.pause()) or "stop" (call engine.stop());    *)
(* onNoteMiss is handed a note and may react differently for each, so its  *)
(* reaction is a function of the note's position in the working set.       *)
(***************************************************************************)
hitWindows == DEFAULT_HIT_WINDOWS

Emit(w, e) == [w EXCEPT !.trace = Append(@, e)]

Passive(n) ==
  [onUpdate |-> "none", onNoteHit |-> "none", onNoteMiss |-> [i \in 1..n |-> "none"],
   onFinish |-> "none"]
Reactions == {"none", "pause", "stop"}

\* The handle requestAnimationFrame returns: one no pending callback holds and
\* the engine does not still hold (handles are never reused).
FreshFrameId(w) ==
  CHOOSE id \in 1..(Cardinality(w.pending) + 2) :
    /\ id \notin w.pending
    /\ id # w.animationFrameId
    /\ \A j \in 1..(id - 1) : j \in w.pending \/ j = w.animationFrameId

FreshNotes(chart) ==
  [i \in 1..Len(chart.notes) |-> [chart.notes[i] EXCEPT !.hit = FALSE, !.hitResult = NullResult]]

startGameLoop(w) ==
  LET id == FreshFrameId(w) IN
  Emit([w EXCEPT !.pending = @ \cup {id}, !.animationFrameId = id], "raf")

stopGameLoop(w) ==
  IF w.animationFrameId # NullFrameId
  THEN [w EXCEPT !.pending = @ \ {w.animationFrameId}, !.animationFrameId = NullFrameId]
  ELSE w

\* Mutant of loadChart: the scoring is not reset.
loadChartKeepsScore(w, chartData) ==
  LET parsed == parseChart(chartData) IN
  IF ~parsed.ok
  THEN Emit([w EXCEPT !.ret = parsed.error], "throw")
  ELSE [w EXCEPT !.chart = parsed.chart,
                 !.notes = FreshNotes(parsed.chart[1]),
                 !.state = IDLE,
                 !.ret = "ok"]

\* Mutant of loadChart: the engine is reset before the chart is parsed.
loadChartResetsFirst(w, chartData) ==
  LET parsed == parseChart(chartData)
      cleared == [w EXCEPT !.scoring = ScoringReset, !.state = IDLE]
  IN IF ~parsed.ok
     THEN Emit([cleared EXCEPT !.ret = parsed.error], "throw")
     ELSE [cleared EXCEPT !.chart = parsed.chart,
                          !.notes = FreshNotes(parsed.chart[1]),
                          !.ret = "ok"]

loadChart(w, chartData) ==
  LET parsed == parseChart(chartData) IN
  IF ~parsed.ok
  THEN Emit([w EXCEPT !.ret = parsed.error], "throw")
  ELSE [w EXCEPT !.chart = parsed.chart,
                 !.notes = FreshNotes(parsed.chart[1]),
                 !.scoring = ScoringReset,
                 !.state = IDLE,
                 !.ret = "ok"]

\* Mutant of start: the transport is started before the chart is checked.
startBeforeCheck(w, now) ==
  LET called == [Emit(w, "start") EXCEPT !.transport = TransportStart(@, now)] IN
  IF w.chart = <<>>
  THEN Emit([called EXCEPT !.ret = "No chart loaded"], "throw")
  ELSE startGameLoop([called EXCEPT !.state = PLAYING, !.ret = "ok"])

start(w, now) ==
  LET called == Emit(w, "start") IN
  IF w.chart = <<>>
  THEN Emit([called EXCEPT !.ret = "No chart loaded"], "throw")
  ELSE startGameLoop([called EXCEPT !.transport = TransportStart(@, now),
                                    !.state = PLAYING,
                                    !.ret = "ok"])

\* Mutant of pause: the transport is left running.
pauseKeepsClock(w, now) ==
  Emit(stopGameLoop([w EXCEPT !.state = PAUSED, !.ret = "ok"]), "pause")

pause(w, now) ==
  Emit(stopGameLoop([w EXCEPT !.transport = TransportPause(@, now),
                              !.state = PAUSED,
                              !.ret = "ok"]),
       "pause")

resume(w, now) ==
  startGameLoop([Emit(w, "resume") EXCEPT !.transport = TransportStart(@, now),
                                          !.state = PLAYING,
                                          !.ret = "ok"])

\* Mutant of stop: the scoring is not reset.
stopKeepsScore(w) ==
  LET stopped == stopGameLoop([w EXCEPT !.transport = TransportStop(@),
                                        !.state = IDLE,
                                        !.ret = "ok"])
  IN Emit(IF stopped.chart # <<>>
          THEN [stopped EXCEPT !.notes = FreshNotes(stopped.chart[1])]
          ELSE stopped,
          "stop")

stop(w) ==
  LET stopped == stopGameLoop([w EXCEPT !.transport = TransportStop(@),
                                        !.state = IDLE,
                                        !.ret = "ok"])
      renewed == IF stopped.chart # <<>>
                 THEN [stopped EXCEPT !.notes = FreshNotes(stopped.chart[1])]
                 ELSE stopped
  IN Emit([renewed EXCEPT !.scoring = ScoringReset], "stop")

\* Mutant of restart: start() without the stop() before it.
restartWithoutStop(w, now) == start(Emit(w, "restart"), now)

restart(w, now) == start(stop(Emit(w, "restart")), now)

\* A host callback's body.
React(w, now, reaction) ==
  CASE reaction = "none" -> w
    [] reaction = "pause" -> pause(w, now)
    [] reaction = "stop" -> stop(w)

\* this.notes.filter(n => !n.hit), as the positions of the notes kept.
RECURSIVE ActiveFrom(_, _)
ActiveFrom(ns, i) ==
  IF i > Len(ns) THEN <<>>
  ELSE IF ~ns[i].hit THEN <<i>> \o ActiveFrom(ns, i + 1)
       ELSE ActiveFrom(ns, i + 1)

ActiveIndices(ns) == ActiveFrom(ns, 1)

\* Mutant of NearbyNote: the search runs over this.notes, resolved notes too.
NearbyNoteResolvedToo(ns, active, currentTime) ==
  LET near == {i \in 1..Len(ns) : Abs(currentTime - ns[i].timeMs) <= hitWindows.good} IN
  IF near = {} THEN <<>>
  ELSE <<CHOOSE i \in near : \A j \in near : i <= j>>

\* activeNotes.find(n => Math.abs(currentTime - n.timeMs) <= good): <<>> for
\* undefined, else the position in the working set of the first such note.
NearbyNote(ns, active, currentTime) ==
  LET near == {k \in 1..Len(active) : Abs(currentTime - ns[active[k]].timeMs) <= hitWindows.good} IN
  IF near = {} THEN <<>>
  ELSE <<active[CHOOSE k \in near : \A j \in near : k <= j]>>

\* Mutant of KeyPressIgnored: input is taken while PAUSED too.
KeyPressIgnoredUnlessPaused(w) == w.state \notin {PLAYING, PAUSED}

\* handleKeyPress's early return.
KeyPressIgnored(w) == w.state # PLAYING

handleKeyPress(w, midiNote, now, cb) ==
  IF KeyPressIgnored(w) THEN [w EXCEPT !.ret = "null"]
  ELSE
    LET currentTime == getCurrentTimeMs(w.transport, now)
        active == ActiveIndices(w.notes)
        activeNotes == [k \in 1..Len(active) |-> w.notes[active[k]]]
        match == findBestMatch(midiNote, currentTime, activeNotes, hitWindows)
    IN IF match # <<>>
       THEN LET i == active[match[1].k]
                rec == recordHit(w.scoring, match[1].hitResult,
                                 <<[noteId |-> w.notes[i].id,
                                    expectedMidi |-> w.notes[i].midi,
                                    actualMidi |-> midiNote,
                                    deltaMs |-> match[1].delta]>>)
                marked == [w EXCEPT !.notes[i].hit = TRUE,
                                    !.notes[i].hitResult = match[1].hitResult,
                                    !.scoring = rec.sc]
                told == React(Emit(marked, "onNoteHit"), now, cb.onNoteHit)
            IN [told EXCEPT !.ret = "hit",
                            !.result = <<[hitResult |-> match[1].hitResult,
                                          note |-> i,
                                          scoreResult |-> rec.result]>>]
       ELSE LET nearbyNote == NearbyNote(w.notes, active, currentTime) IN
            IF nearbyNote # <<>>
            THEN [w EXCEPT
                    !.scoring = recordHit(@, WRONG_NOTE,
                                  <<[noteId |-> w.notes[nearbyNote[1]].id,
                                     expectedMidi |-> w.notes[nearbyNote[1]].midi,
                                     actualMidi |-> midiNote,
                                     deltaMs |-> Abs(currentTime - w.notes[nearbyNote[1]].timeMs)]>>).sc,
                    !.ret = "null"]
            ELSE [w EXCEPT !.ret = "null"]

finish(w, now, cb) ==
  LET ended == stopGameLoop([w EXCEPT !.state = FINISHED])
      halted == [ended EXCEPT !.transport = TransportStop(@)]
      summary == getSummary(halted.scoring)
  IN React(Emit([halted EXCEPT !.summary = <<summary>>], "onFinish"), now, cb.onFinish)

\* Mutant of SweepMisses: the sweep forgets the hit flag.
SweepMissesResolvedToo(note, currentTime) ==
  isNoteMissed(note.timeMs, currentTime, hitWindows)

\* Mutant of SweepMisses: a note is given the finish slack before it is missed.
SweepMissesAfterSlack(note, currentTime) ==
  ~note.hit /\ isNoteMissed(note.timeMs + FinishSlackMs, currentTime, hitWindows)

\* The sweep's test of one note.
SweepMisses(note, currentTime) ==
  ~note.hit /\ isNoteMissed(note.timeMs, currentTime, hitWindows)

\* update()'s for-of loop from position i of arr, the array this.notes named
\* when the loop began.  attached: this.notes is still that array (stop()
\* called from a callback replaces it, and the loop goes on over the old one).
RECURSIVE Sweep(_, _, _, _, _, _, _)
Sweep(w, arr, i, attached, currentTime, now, cb) ==
  IF i > Len(arr) THEN w
  ELSE IF SweepMisses(arr[i], currentTime)
       THEN LET marked == IF attached
                          THEN [w EXCEPT !.notes[i].hit = TRUE, !.notes[i].hitResult = MISS]
                          ELSE w
                scored == [marked EXCEPT
                             !.scoring = recordHit(@, MISS,
                                           <<[noteId |-> arr[i].id,
                                              expectedMidi |-> arr[i].midi,
                                              actualMidi |-> NullMidi,
                                              deltaMs |-> currentTime - arr[i].timeMs]>>).sc]
                told == React(Emit(scored, "onNoteMiss"), now, cb.onNoteMiss[i])
                still == attached /\ ~(cb.onNoteMiss[i] = "stop" /\ w.chart # <<>>)
            IN Sweep(told, arr, i + 1, still, currentTime, now, cb)
       ELSE Sweep(w, arr, i + 1, attached, currentTime, now, cb)

\* The finish test of update().
SongFinished(ns, duration, currentTime) ==
  (\A i \in 1..Len(ns) : ns[i].hit) /\ currentTime > duration + FinishSlackMs

\* Math.min(currentTime / duration, 1) as a JavaScript number: NaN, or the
\* fraction num / den with den > 0.  0 / 0 is NaN; a positive time over a
\* zero duration is Infinity, whose minimum with 1 is 1.
Progress(currentTime, duration) ==
  IF duration = 0
  THEN IF currentTime = 0 THEN [nan |-> TRUE, num |-> 0, den |-> 1]
       ELSE IF currentTime > 0 THEN [nan |-> FALSE, num |-> 1, den |-> 1]
            ELSE [nan |-> FALSE, num |-> -1, den |-> 0]
  ELSE IF duration > 0
       THEN IF currentTime >= duration THEN [nan |-> FALSE, num |-> 1, den |-> 1]
            ELSE [nan |-> FALSE, num |-> currentTime, den |-> duration]
       ELSE IF currentTime <= duration THEN [nan |-> FALSE, num |-> 1, den |-> 1]
            ELSE [nan |-> FALSE, num |-> -currentTime, den |-> -duration]

update(w, now, cb) ==
  LET currentTime == getCurrentTimeMs(w.transport, now)
      swept == Sweep(Emit(w, "update"), w.notes, 1, TRUE, currentTime, now, cb)
  IN IF swept.chart = <<>>
     THEN Emit([swept EXCEPT !.ret = "TypeError"], "throw")
     ELSE IF SongFinished(swept.notes, swept.chart[1].duration, currentTime)
          THEN finish(swept, now, cb)
          ELSE React(Emit([swept EXCEPT
                             !.update = <<[currentTimeMs |-> currentTime,
                                           score |-> swept.scoring.score,
                                           streak |-> swept.scoring.streak,
                                           multiplier |-> getMultiplier(swept.scoring),
                                           progress |-> Progress(currentTime,
                                                                 swept.chart[1].duration)]>>],
                          "onUpdate"),
                     now, cb.onUpdate)

\* getRenderState(hitLineY) with the default hitLineY = 0: y is in tenths of
\* a pixel.
getRenderState(w, now) ==
  LET currentTime == getCurrentTimeMs(w.transport, now) IN
  [currentTimeMs |-> currentTime,
   notes |-> [i \in DOMAIN w.notes |->
                LET timeToHit == w.notes[i].timeMs - currentTime IN
                [note |-> w.notes[i],
                 timeToHit |-> timeToHit,
                 y |-> 0 - (timeToHit * NoteSpeedTenths),
                 isVisible |-> timeToHit > -VisibleBehindMs /\ timeToHit < LookAheadMs]],
   score |-> w.scoring.score,
   streak |-> w.scoring.streak,
   multiplier |-> getMultiplier(w.scoring),
   progress |-> IF w.chart # <<>> THEN Progress(currentTime, w.chart[1].duration)
                ELSE [nan |-> FALSE, num |-> 0, den |-> 1],
   state |-> w.state]

\* The frame callback `loop` of startGameLoop; the scheduler has already
\* taken it off its list.
\* Mutant of LoopExits: the loop goes on while PAUSED.
LoopExitsUnlessPaused(w) == w.state \notin {PLAYING, PAUSED}

\* loop's early return.
LoopExits(w) == w.state # PLAYING

\* Mutant of loop: the next frame is not requested.
loopOnce(w, now, cb) ==
  IF LoopExits(w) THEN w ELSE update(w, now, cb)

loop(w, now, cb) ==
  IF LoopExits(w) THEN w
  ELSE LET updated == update(w, now, cb) IN
       IF updated.ret = "TypeError" THEN updated
       ELSE startGameLoop(updated)

\* ------------------------------------------------------------ the machine
VARIABLES
  state,             \* GameEngine.state
  chart,             \* GameEngine.chart: <<>> or <<parsed chart>>
  notes,             \* GameEngine.notes, the working set
  animationFrameId,  \* GameEngine.animationFrameId
  scoring,           \* the ScoringEngine's fields
  transport,         \* the Transport's fields
  pending,           \* the handles of the frame callbacks the scheduler holds
  now,               \* performance.now()
  last,              \* the last call: its name, argument, result and trace
  loopCancelled      \* history: the last of pause/stop/start/resume/restart
                     \* to act was a pause() or stop() that has returned

engineVars == <<state, chart, notes, animationFrameId, scoring, transport, pending>>
vars == <<state, chart, notes, animationFrameId, scoring, transport, pending, now, last, loopCancelled>>

NoCall == [op |-> "init", arg |-> 0, ret |-> "", result |-> <<>>, trace |-> <<>>,
           update |-> <<>>, summary |-> <<>>]

\* The world at the start of a call.
World ==
  [state |-> state, chart |-> chart, notes |-> notes,
   animationFrameId |-> animationFrameId, scoring |-> scoring,
   transport |-> transport, pending |-> pending,
   trace |-> <<>>, ret |-> "", result |-> <<>>, update |-> <<>>, summary |-> <<>>]

RECURSIVE CancelledAfter(_, _)
CancelledAfter(flag, trace) ==
  IF trace = <<>> THEN flag
  ELSE CancelledAfter(
         CASE Head(trace) \in {"pause", "stop"} -> TRUE
           [] Head(trace) \in {"start", "resume", "restart"} -> FALSE
           [] OTHER -> flag,
         Tail(trace))

\* Mutant of Commit: the working set is the chart's own note array, not a
\* clone of it, so what the call wrote to the notes shows in the chart.
CommitSharedNotes(w, op, arg) ==
  /\ state' = w.state
  /\ chart' = IF w.chart = <<>> THEN w.chart
              ELSE <<[w.chart[1] EXCEPT !.notes = w.notes]>>
  /\ notes' = w.notes
  /\ animationFrameId' = w.animationFrameId
  /\ scoring' = w.scoring
  /\ transport' = w.transport
  /\ pending' = w.pending
  /\ last' = [op |-> op, arg |-> arg, ret |-> w.ret, result |-> w.result,
              trace |-> w.trace, update |-> w.update, summary |-> w.summary]
  /\ loopCancelled' = CancelledAfter(loopCancelled, w.trace)
  /\ now' = now

\* The call op(arg) has run and left the world w.
Commit(w, op, arg) ==
  /\ state' = w.state
  /\ chart' = w.chart
  /\ notes' = w.notes
  /\ animationFrameId' = w.animationFrameId
  /\ scoring' = w.scoring
  /\ transport' = w.transport
  /\ pending' = w.pending
  /\ last' = [op |-> op, arg |-> arg, ret |-> w.ret, result |-> w.result,
              trace |-> w.trace, update |-> w.update, summary |-> w.summary]
  /\ loopCancelled' = CancelledAfter(loopCancelled, w.trace)
  /\ now' = now

Init ==
  /\ state = IDLE
  /\ chart = <<>>
  /\ notes = <<>>
  /\ animationFrameId = NullFrameId
  /\ scoring = ScoringReset
  /\ transport = TransportInit
  /\ pending = {}
  /\ now = 0
  /\ last = NoCall
  /\ loopCancelled = FALSE

CanSchedule == Cardinality(pending) < MaxPending

WithinWrongNotes(w) == w.scoring.hitCounts[WRONG_NOTE] <= MaxWrongNotes

LoadChart(c) == Commit(loadChart(World, c), "loadChart", c)

Start == CanSchedule /\ Commit(start(World, now), "start", 0)

Pause == Commit(pause(World, now), "pause", 0)

Resume == CanSchedule /\ Commit(resume(World, now), "resume", 0)

Stop == Commit(stop(World), "stop", 0)

Restart == CanSchedule /\ Commit(restart(World, now), "restart", 0)

KeyPress(p) ==
  LET w == handleKeyPress(World, p, now, Passive(Len(notes))) IN
  WithinWrongNotes(w) /\ Commit(w, "handleKeyPress", p)

\* The scheduler runs the pending frame callback id.
Frame(id) ==
  Commit(loop([World EXCEPT !.pending = @ \ {id}], now, Passive(Len(notes))), "frame", 0)

\* performance.now() advances.
Advance ==
  /\ now < LateInstantMs
  /\ now' = IF now < MaxFineSteps * ClockStepMs THEN now + ClockStepMs ELSE LateInstantMs
  /\ last' = [NoCall EXCEPT !.op = "clock"]
  /\ UNCHANGED <<engineVars, loopCancelled>>

Next ==
  \/ \E c \in RawCharts : LoadChart(c)
  \/ Start
  \/ Pause
  \/ Resume
  \/ Stop
  \/ Restart
  \/ \E p \in Pitches : KeyPress(p)
  \/ \E id \in pending : Frame(id)
  \/ Advance

Spec == Init /\ [][Next]_vars

\* The host's callbacks call back into the engine (pause or stop).

\* onNoteHit is the one callback a key press invokes.
KeyPressCb(p, r) ==
  LET w == handleKeyPress(World, p, now, [Passive(Len(notes)) EXCEPT !.onNoteHit = r]) IN
  WithinWrongNotes(w) /\ Commit(w, "handleKeyPress", p)

\* onNoteMiss, and then one of onUpdate and onFinish (r says what that one
\* does), are the callbacks a tick invokes.
FrameBehaviours ==
  {[onUpdate |-> r, onNoteHit |-> "none", onNoteMiss |-> m, onFinish |-> r] :
     r \in Reactions, m \in [1..Len(notes) -> Reactions]}

FrameCb(id, cb) ==
  Commit(loop([World EXCEPT !.pending = @ \ {id}], now, cb), "frame", 0)

NextCb ==
  \/ \E c \in RawCharts : LoadChart(c)
  \/ Start
  \/ Pause
  \/ Resume
  \/ Stop
  \/ Restart
  \/ \E p \in Pitches, r \in Reactions : KeyPressCb(p, r)
  \/ \E id \in pending, cb \in FrameBehaviours : FrameCb(id, cb)
  \/ Advance

SpecCb == Init /\ [][NextCb]_vars

\* A tick driver outside the engine calls update() itself.
UpdateDirect == Commit(update(World, now, Passive(Len(notes))), "update", 0)

NextDirect == Next \/ UpdateDirect

SpecDirect == Init /\ [][NextDirect]_vars

\* The host writes to what the engine handed it.
(***************************************************************************)
(* handleKeyPress returns, and hands onNoteHit, `note: match.note`, the     *)
(* working note itself; onUpdate is handed `notes: this.notes`, the working *)
(* array itself.  HeldNotes are the positions of the working notes the host *)
(* holds a reference to when the last call has returned.                    *)
(***************************************************************************)
HeldNotes ==
  IF last.op = "handleKeyPress" /\ last.ret = "hit" THEN {last.result[1].note}
  ELSE IF last.op = "frame" /\ \E k \in DOMAIN last.trace : last.trace[k] = "onUpdate"
       THEN DOMAIN notes
       ELSE {}

\* The host writes while fewer results than notes have been recorded.
HostWritesEnabled == scoring.totalNotes < Len(notes)

\* The host assigns `hit` on a note it was handed.
HostWrite(i, b) ==
  /\ i \in HeldNotes
  /\ HostWritesEnabled
  /\ notes[i].hit # b
  /\ notes' = [notes EXCEPT ![i].hit = b]
  /\ last' = [NoCall EXCEPT !.op = "hostWrite", !.arg = i]
  /\ UNCHANGED <<state, chart, animationFrameId, scoring, transport, pending, now, loopCancelled>>

NextHost ==
  \/ Next
  \/ \E i \in DOMAIN notes, b \in BOOLEAN : HostWrite(i, b)

SpecHost == Init /\ [][NextHost]_vars

\* A session left to run: a chart is loaded while IDLE and the engine started,
\* and from then on there are only key presses, frames and the clock, which
\* runs on past the end of every chart whenever the engine was started.
LastStartMs == MaxFineSteps * ClockStepMs

LoadChartIdle(c) == state = IDLE /\ LoadChart(c)

AdvanceLive ==
  /\ now <= LastStartMs
  /\ now' = IF now < LastStartMs THEN now + ClockStepMs ELSE now + LateInstantMs
  /\ last' = [NoCall EXCEPT !.op = "clock"]
  /\ UNCHANGED <<engineVars, loopCancelled>>

FrameFires == \E id \in pending : Frame(id)

NextLive ==
  \/ \E c \in RawCharts : LoadChartIdle(c)
  \/ Start
  \/ \E p \in Pitches : KeyPress(p)
  \/ FrameFires
  \/ AdvanceLive

\* The clock keeps advancing.
SpecLive == Init /\ [][NextLive]_vars /\ WF_vars(AdvanceLive)

\* The renderer reads the render state.
GetRenderState ==
  /\ last' = [NoCall EXCEPT !.op = "getRenderState",
                            !.result = <<getRenderState(World, now)>>]
  /\ UNCHANGED <<engineVars, now, loopCancelled>>

NextRender == Next \/ GetRenderState

SpecRender == Init /\ [][NextRender]_vars

\* A tick and a key press at one instant.
(***************************************************************************)
(* A chart whose second note comes due long after the first has passed its *)
(* good window, played with the tick driver and the input driver both      *)
(* calling in.                                                              *)
(***************************************************************************)
ChartRace ==
  RawChart(<<RawNote(Num(0), Undef, Num(60), Num(ClockStepMs), Undef),
             RawNote(Num(LateInstantMs - ClockStepMs), Undef, Num(62), Num(ClockStepMs), Undef)>>)

NextRace ==
  \/ LoadChart(ChartRace)
  \/ Start
  \/ Pause
  \/ Resume
  \/ \E p \in Pitches : KeyPress(p)
  \/ \E id \in pending : Frame(id)
  \/ UpdateDirect
  \/ Advance

SpecRace == Init /\ [][NextRace]_vars

\* What the two orders are compared on: each working note's hit and
\* hitResult, and the score fields.
Outcome(w) ==
  [notes |-> [i \in DOMAIN w.notes |-> <<w.notes[i].hit, w.notes[i].hitResult>>],
   score |-> w.scoring.score,
   streak |-> w.scoring.streak,
   maxStreak |-> w.scoring.maxStreak,
   hitCounts |-> w.scoring.hitCounts,
   totalNotes |-> w.scoring.totalNotes]

\* update() and then handleKeyPress(p), at the current instant.
TickThenKey(p) ==
  handleKeyPress(update(World, now, Passive(Len(notes))), p, now, Passive(Len(notes)))

\* handleKeyPress(p) and then update(), at the current instant.
KeyThenTick(p) ==
  update(handleKeyPress(World, p, now, Passive(Len(notes))), now, Passive(Len(notes)))

\* ---------------------------------------------- the pure functions alone
(***************************************************************************)
(* parseChart and the HitDetection functions called on their own, once,    *)
(* with arguments drawn from bounded sets: last records the call, its      *)
(* arguments (arg) and what it returned (ret, result).                     *)
(***************************************************************************)
NotCalledYet == last.op = "init"

PureCall(op, arg, ret, result) ==
  /\ NotCalledYet
  /\ last' = [NoCall EXCEPT !.op = op, !.arg = arg, !.ret = ret, !.result = result]
  /\ UNCHANGED <<engineVars, now, loopCancelled>>

\* The time fields (timeMs, time) and the duration fields (durationMs,
\* duration) of a raw element, and its pitch.
RawTimeFields == {<<Num(t), Undef>> : t \in 0..MaxRawTimeMs} \cup {<<Undef, Num(0)>>}
RawDurationFields == {<<Undef, Undef>>, <<Num(1), Num(3)>>, <<Undef, Num(3)>>}
RawMidis == {Num(60), NumHalf(60)}

\* Elements with a number for the time and for the pitch, and elements with
\* one field that is not: a negative, absent or non-numeric time; a pitch
\* below 0, above 127, absent or non-numeric.
RawNotes ==
  {RawNote(tf[1], tf[2], m, df[1], df[2]) :
     tf \in RawTimeFields, m \in RawMidis, df \in RawDurationFields}
    \cup {RawNote(Num(-1), Num(0), Num(60), Undef, Undef),
          RawNote(Undef, Undef, Num(60), Undef, Undef),
          RawNote(Str, Undef, Num(60), Undef, Undef),
          RawNote(Num(0), Undef, Num(-1), Undef, Undef),
          RawNote(Num(0), Undef, Num(MidiMax + 1), Undef, Undef),
          RawNote(Num(0), Undef, Undef, Undef, Undef),
          RawNote(Num(0), Undef, Str, Undef, Undef)}

RECURSIVE SeqsUpTo(_, _)
SeqsUpTo(S, n) ==
  IF n = 0 THEN {<<>>}
  ELSE LET shorter == SeqsUpTo(S, n - 1) IN
       shorter \cup {Append(q, x) : q \in {r \in shorter : Len(r) = n - 1}, x \in S}

\* null or undefined; an object whose notes is no array; an object with notes.
RawInputs ==
  {[isObject |-> FALSE, notesIsArray |-> FALSE, notes |-> <<>>],
   [isObject |-> TRUE, notesIsArray |-> FALSE, notes |-> <<>>]}
    \cup {RawChart(ns) : ns \in SeqsUpTo(RawNotes, MaxRawNotes)}

ParseChart(raw) ==
  LET parsed == parseChart(raw) IN
  PureCall("parseChart", raw, IF parsed.ok THEN "ok" ELSE "throw", parsed)

NextParse == NotCalledYet /\ \E raw \in RawInputs : ParseChart(raw)

SpecParse == Init /\ [][NextParse]_vars

\* Ascending hit windows with thresholds in 0..MaxWindowMs.
Windows ==
  {[perfect |-> p, great |-> g, good |-> d] :
     p \in 0..MaxWindowMs, g \in 0..MaxWindowMs, d \in 0..MaxWindowMs}
AscendingWindows == {w \in Windows : w.perfect <= w.great /\ w.great <= w.good}

\* Times from before every window to after it.
HitTimes == 0..(2 * MaxWindowMs + 2)
HitDeltas == (0 - MaxWindowMs - 1)..(MaxWindowMs + 1)

ClassifyHit(deltaMs, correctNote, windows) ==
  PureCall("classifyHit",
           [deltaMs |-> deltaMs, correctNote |-> correctNote, windows |-> windows],
           classifyHit(deltaMs, correctNote, windows), <<>>)

\* isNoteMissed and isNoteHittable asked about the same note at the same time.
NoteTiming(noteTimeMs, currentTimeMs, windows) ==
  PureCall("noteTiming",
           [noteTimeMs |-> noteTimeMs, currentTimeMs |-> currentTimeMs, windows |-> windows],
           "",
           [missed |-> isNoteMissed(noteTimeMs, currentTimeMs, windows),
            hittable |-> isNoteHittable(noteTimeMs, currentTimeMs, windows)])

\* Candidate notes, with the fields findBestMatch reads: notes of the pitch
\* asked for, resolved or not, and unresolved notes of another pitch.
CandidateTimes == {0, 1, 2}
Candidates ==
  {[midi |-> 60, midiHalf |-> FALSE, timeMs |-> t, hit |-> h] :
     t \in CandidateTimes, h \in BOOLEAN}
    \cup {[midi |-> 62, midiHalf |-> FALSE, timeMs |-> t, hit |-> FALSE] : t \in CandidateTimes}

FindBestMatch(midiNote, currentTimeMs, activeNotes, windows) ==
  PureCall("findBestMatch",
           [midiNote |-> midiNote, currentTimeMs |-> currentTimeMs,
            activeNotes |-> activeNotes, windows |-> windows],
           "",
           findBestMatch(midiNote, currentTimeMs, activeNotes, windows))

NextHit ==
  \/ NotCalledYet /\ \E d \in HitDeltas, c \in BOOLEAN, w \in AscendingWindows :
                        ClassifyHit(d, c, w)
  \/ NotCalledYet /\ \E nt \in HitTimes, ct \in HitTimes, w \in AscendingWindows :
                        NoteTiming(nt, ct, w)
  \/ NotCalledYet /\ \E t \in CandidateTimes, ns \in SeqsUpTo(Candidates, MaxCandidates),
                         w \in AscendingWindows :
                        FindBestMatch(60, t, ns, w)

SpecHit == Init /\ [][NextHit]_vars

\* ------------------------------------------------ the ScoringEngine alone
(***************************************************************************)
(* A ScoringEngine called on its own.  It starts in a state recordHit has   *)
(* built from reset(): a run of misses, then a run of PERFECTs.  last.trace *)
(* is the log of the kinds recorded since the last reset(), last.arg.n the  *)
(* number of calls made since the start.                                    *)
(***************************************************************************)
RunOf(m, n) == [i \in 1..(m + n) |-> IF i <= m THEN MISS ELSE PERFECT]

\* The ScoringEngine sc after recordHit(kinds[i]), ..., recordHit(kinds[n]).
RECURSIVE ReplayFrom(_, _, _)
ReplayFrom(sc, kinds, i) ==
  IF i > Len(kinds) THEN sc
  ELSE CHOOSE after \in {ReplayFrom(next, kinds, i + 1) :
                           next \in {recordHit(sc, kinds[i], <<>>).sc}} : TRUE

Replay(sc, kinds) == ReplayFrom(sc, kinds, 1)

InitScore ==
  /\ state = IDLE
  /\ chart = <<>>
  /\ notes = <<>>
  /\ animationFrameId = NullFrameId
  /\ transport = TransportInit
  /\ pending = {}
  /\ now = 0
  /\ loopCancelled = FALSE
  /\ \E m \in {0, PriorMisses}, n \in 0..MaxStreak :
       /\ scoring = Replay(ScoringReset, RunOf(m, n))
       /\ last = [NoCall EXCEPT !.trace = RunOf(m, n)]

CallsMade == IF last.op = "init" THEN 0 ELSE last.arg.n

\* The ScoringEngine may be called again: the last call was no query.
Callable == last.op \in {"init", "recordHit", "reset"}

SampleInfo == [noteId |-> "note-0", expectedMidi |-> 60, actualMidi |-> 62, deltaMs |-> 0]
NoteInfos == {<<>>, <<SampleInfo>>}

ScoreCall(sc, op, arg, result, log, summary) ==
  /\ scoring' = sc
  /\ last' = [NoCall EXCEPT !.op = op, !.arg = arg, !.result = result, !.trace = log,
                            !.summary = summary]
  /\ UNCHANGED <<state, chart, notes, animationFrameId, transport, pending, now, loopCancelled>>

RecordHit(hitResult, noteInfo) ==
  /\ Callable
  /\ CallsMade < MaxCalls
  /\ LET rec == recordHit(scoring, hitResult, noteInfo) IN
     ScoreCall(rec.sc, "recordHit",
               [hitResult |-> hitResult, noteInfo |-> noteInfo, n |-> CallsMade + 1],
               <<rec.result>>, Append(last.trace, hitResult), <<>>)

Reset ==
  /\ Callable
  /\ CallsMade < MaxCalls
  /\ ScoreCall(ScoringReset, "reset", [n |-> CallsMade + 1], <<>>, <<>>, <<>>)

GetSummary ==
  /\ Callable
  /\ ScoreCall(scoring, "getSummary", [n |-> CallsMade], <<>>, last.trace,
               <<getSummary(scoring)>>)

\* calculateScore called with the ScoringEngine's streak as the prior streak.
CalculateScore(hitResult) ==
  /\ Callable
  /\ ScoreCall(scoring, "calculateScore",
               [hitResult |-> hitResult, streak |-> scoring.streak, n |-> CallsMade],
               <<calculateScore(hitResult, scoring.streak)>>, last.trace, <<>>)

NextScore ==
  \/ \E k \in HitResult, info \in NoteInfos : RecordHit(k, info)
  \/ Reset
  \/ GetSummary
  \/ \E k \in HitResult : CalculateScore(k)

SpecScore == InitScore /\ [][NextScore]_vars

\* ----------------------------------------------------- the Transport alone
(***************************************************************************)
(* A Transport called on its own over the clock.  last.ret is what          *)
(* getCurrentTimeMs() returns right after the call.                         *)
(***************************************************************************)
TransportCall(tr, op, arg) ==
  /\ transport' = tr
  /\ last' = [NoCall EXCEPT !.op = op, !.arg = arg, !.ret = getCurrentTimeMs(tr, now)]
  /\ UNCHANGED <<state, chart, notes, animationFrameId, scoring, pending, now, loopCancelled>>

TStart == TransportCall(TransportStart(transport, now), "start", 0)

TPause == TransportCall(TransportPause(transport, now), "pause", 0)

TStop == TransportCall(TransportStop(transport), "stop", 0)

\* The times sought.
SeekTimes == {0, ClockStepMs, 2 * ClockStepMs}

TSeekTo(timeMs) == TransportCall(seekTo(transport, timeMs, now), "seekTo", timeMs)

\* start() and pause() only.
NextTransport == TStart \/ TPause \/ Advance

SpecTransport == Init /\ [][NextTransport]_vars

\* stop() and seekTo() as well.
NextSeek ==
  \/ TStart
  \/ TPause
  \/ TStop
  \/ \E t \in SeekTimes : TSeekTo(t)
  \/ Advance

SpecSeek == Init /\ [][NextSeek]_vars

\* ------------------------------------------------------------- properties
Count(trace, e) == Cardinality({i \in DOMAIN trace : trace[i] = e})

Resolved(ns) == {i \in DOMAIN ns : ns[i].hit}

\* Transport time as the engine reads it in the current state.
CurrentTime == getCurrentTimeMs(transport, now)

SessionEnds == {"stop", "restart", "loadChart"}

\* C1: within a play session (any step other than stop, restart or loadChart)
\* a resolved note stays exactly as it is, a note that becomes resolved gets
\* its hitResult in that same step, and an unresolved note has none.
C1_ResolvedAtMostOnce ==
  [][last'.op \notin SessionEnds =>
       /\ Len(notes') = Len(notes)
       /\ \A i \in DOMAIN notes :
            /\ notes[i].hit => notes'[i] = notes[i]
            /\ notes'[i].hit <=> notes'[i].hitResult \in HitResult
            /\ ~notes'[i].hit => notes'[i].hitResult = NullResult]_vars

\* C1 witness: a tick has run after one note was resolved by a key press and
\* the other by the sweep, at a time when the pressed note is past its window.
C1_Witness ==
  /\ last.op = "frame"
  /\ state = PLAYING
  /\ \E i, j \in DOMAIN notes :
       /\ notes[i].hitResult \in {PERFECT, GREAT, GOOD}
       /\ notes[j].hitResult = MISS
       /\ CurrentTime > notes[i].timeMs + GoodWindowMs

PitchInWindow(p, t) ==
  \E i \in DOMAIN notes :
    ~notes[i].hit /\ notes[i].midi = p /\ Abs(t - notes[i].timeMs) <= GoodWindowMs
AnyInWindow(t) ==
  \E i \in DOMAIN notes : ~notes[i].hit /\ Abs(t - notes[i].timeMs) <= GoodWindowMs

\* C3: a key press in PLAYING that matches no unresolved note of its pitch
\* returns none and changes no note; it records exactly one WRONG_NOTE when
\* some unresolved note is within the good window, and nothing otherwise.
C3_WrongNoteBranch ==
  [][(last'.op = "handleKeyPress" /\ state = PLAYING /\ ~PitchInWindow(last'.arg, CurrentTime)) =>
       /\ notes' = notes
       /\ state' = state
       /\ last'.ret = "null" /\ last'.result = <<>> /\ last'.trace = <<>>
       /\ IF AnyInWindow(CurrentTime)
          THEN /\ scoring'.hitCounts = [scoring.hitCounts EXCEPT ![WRONG_NOTE] = @ + 1]
               /\ scoring'.totalNotes = scoring.totalNotes + 1
               /\ scoring'.streak = 0
               /\ scoring'.maxStreak = scoring.maxStreak
               /\ scoring'.score = scoring.score
               /\ Len(scoring'.mistakes) = Len(scoring.mistakes) + 1
               /\ SubSeq(scoring'.mistakes, 1, Len(scoring.mistakes)) = scoring.mistakes
               /\ scoring'.mistakes[Len(scoring'.mistakes)].hitResult = WRONG_NOTE
               /\ scoring'.mistakes[Len(scoring'.mistakes)].actualMidi = last'.arg
          ELSE scoring' = scoring]_vars

\* C3 witness: a press has just been scored as a wrong note, breaking a streak,
\* while the note it was scored against is still unresolved.
C3_Witness ==
  /\ last.op = "handleKeyPress"
  /\ last.ret = "null"
  /\ state = PLAYING
  /\ scoring.hitCounts[WRONG_NOTE] = 1
  /\ scoring.maxStreak = 1 /\ scoring.streak = 0
  /\ AnyInWindow(CurrentTime)

\* C4: a key press outside PLAYING returns none, changes no field of the
\* engine, its scoring or its transport, and invokes no callback.
C4_KeyPressOutsidePlaying ==
  [][(last'.op = "handleKeyPress" /\ state # PLAYING) =>
       /\ UNCHANGED engineVars
       /\ last'.ret = "null" /\ last'.result = <<>> /\ last'.trace = <<>>]_vars

\* C4 witness: a key was pressed while PAUSED with an unresolved note of that
\* pitch inside its window.
C4_Witness ==
  /\ last.op = "handleKeyPress"
  /\ state = PAUSED
  /\ PitchInWindow(last.arg, CurrentTime)

RECURSIVE QuietWhileCancelled(_, _)
QuietWhileCancelled(flag, trace) ==
  IF trace = <<>> THEN TRUE
  ELSE /\ flag => Head(trace) \notin {"update", "raf"}
       /\ QuietWhileCancelled(CancelledAfter(flag, <<Head(trace)>>), Tail(trace))

\* C6: once pause() or stop() has returned (also when called from a callback
\* during a tick), update() is not invoked and no frame is scheduled until the
\* next start(), resume() or restart().
C6_NoTickAfterCancel ==
  [][QuietWhileCancelled(loopCancelled, last'.trace)]_vars

\* C7: when a tick has reached the finish condition, the state is FINISHED, the
\* Transport is idle, onFinish got the scoring summary, and nothing remains
\* scheduled (no pending frame callback, animationFrameId cleared).
C7_FinishLeavesNothingScheduled ==
  (last.op = "frame" /\ Count(last.trace, "onFinish") > 0) =>
    /\ state = FINISHED
    /\ ~transport.isPlaying /\ transport.startTime = NullTime
    /\ last.summary = <<getSummary(scoring)>>
    /\ pending = {}
    /\ animationFrameId = NullFrameId

\* C8: a tick in PLAYING ends in FINISHED iff after its sweep every note is
\* resolved and currentTime > chart.duration + 500; any other tick in PLAYING
\* leaves the state PLAYING and emits exactly one update event; and in
\* FINISHED every working note is resolved.
C8_FinishIffAllResolvedAndLate ==
  [][/\ (last'.op = "frame" /\ state = PLAYING) =>
          /\ state' = FINISHED <=>
               /\ chart # <<>>
               /\ \A i \in DOMAIN notes' : notes'[i].hit
               /\ CurrentTime > chart[1].duration + FinishSlackMs
          /\ state' # FINISHED =>
               state' = PLAYING /\ Count(last'.trace, "onUpdate") = 1
          /\ state' = FINISHED => Count(last'.trace, "onUpdate") = 0
     /\ state' = FINISHED => \A i \in DOMAIN notes' : notes'[i].hit]_vars

\* C9: PAUSED is entered only by pause() from PLAYING; resume() leads to
\* PLAYING only from PAUSED; pause() in IDLE or FINISHED and resume() in IDLE,
\* PLAYING or FINISHED leave the engine state unchanged.
C9_PauseResumeTransitions ==
  [][/\ (state' = PAUSED /\ state # PAUSED) => (last'.op = "pause" /\ state = PLAYING)
     /\ (last'.op = "pause" /\ state \in {IDLE, FINISHED}) => state' = state
     /\ (last'.op = "resume" /\ state \in {IDLE, PLAYING, FINISHED}) => state' = state
     /\ (last'.op = "resume" /\ state = PAUSED) => state' = PLAYING]_vars

\* C10: start() with no chart loaded throws and leaves the engine state, the
\* Transport and the frame scheduling exactly as they were.
C10_StartWithoutChartThrows ==
  [][(last'.op = "start" /\ chart = <<>>) =>
       /\ last'.ret = "No chart loaded"
       /\ last'.trace = <<"start", "throw">>
       /\ UNCHANGED engineVars]_vars

\* C10 witness: start() has thrown in an engine without a chart.
C10_Witness ==
  /\ last.op = "start"
  /\ last.ret = "No chart loaded"
  /\ chart = <<>>
  /\ ~transport.isPlaying

\* The working set is pristine: each note is the parsed chart's note, unresolved.
Pristine ==
  IF chart = <<>> THEN notes = <<>>
  ELSE /\ Len(notes) = chart[1].noteCount
       /\ \A i \in DOMAIN notes :
            notes[i] = chart[1].notes[i] /\ ~notes[i].hit /\ notes[i].hitResult = NullResult

\* C11: after stop() the state is IDLE, every working note is unresolved and
\* equal to the parsed chart's note, the ScoreState is zero, the Transport is
\* idle and no tick is scheduled (no frame callback pending, no handle held).
C11_StopResets ==
  last.op = "stop" =>
    /\ state = IDLE
    /\ Pristine
    /\ scoring = ScoringReset
    /\ transport = TransportInit
    /\ getCurrentTimeMs(transport, now) = 0
    /\ animationFrameId = NullFrameId
    /\ pending = {}

\* C12: after restart() with a chart loaded the state is PLAYING, every
\* working note is unresolved, the ScoreState is zero, and the Transport runs
\* from a fresh origin: its time is 0, with no paused time carried over.
C12_RestartFromZero ==
  (last.op = "restart" /\ chart # <<>>) =>
    /\ last.ret = "ok"
    /\ state = PLAYING
    /\ Pristine
    /\ scoring = ScoringReset
    /\ transport = [startTime |-> now, pauseTime |-> NullTime, pausedDuration |-> 0,
                    isPlaying |-> TRUE, isPaused |-> FALSE]
    /\ getCurrentTimeMs(transport, now) = 0

\* C12 witness: restart() at the last instant of the clock, when the first
\* session of a two-note chart is long over.
C12_Witness ==
  /\ last.op = "restart"
  /\ now = LateInstantMs
  /\ state = PLAYING
  /\ Len(notes) = 2
  /\ transport.startTime = LateInstantMs

\* C13: after loadChart(raw) has succeeded the chart is the one parsed from
\* raw, the state is IDLE, the working set is a copy of its notes with every
\* note unresolved, and the ScoreState is zero.
C13_LoadChartResets ==
  (last.op = "loadChart" /\ parseChart(last.arg).ok) =>
    /\ last.ret = "ok"
    /\ chart = parseChart(last.arg).chart
    /\ state = IDLE
    /\ notes = FreshNotes(chart[1])
    /\ Pristine
    /\ scoring = ScoringReset

\* C13 witness: a chart was loaded over a session in progress (the transport,
\* which loadChart leaves alone, is still running).
C13_Witness ==
  /\ last.op = "loadChart"
  /\ last.ret = "ok"
  /\ Len(notes) = 2
  /\ transport.isPlaying
  /\ now > 0

\* C14: a loadChart(raw) that fails validation hands the error to the caller
\* and changes nothing: chart, working notes, ScoreState, engine state,
\* Transport and the scheduled frames are as before the call.
C14_FailedLoadChangesNothing ==
  [][(last'.op = "loadChart" /\ ~parseChart(last'.arg).ok) =>
       /\ last'.ret = parseChart(last'.arg).error
       /\ last'.trace = <<"throw">>
       /\ UNCHANGED <<engineVars, now>>]_vars

\* C14 witness: a load has failed in the middle of a session with a score.
C14_Witness ==
  /\ last.op = "loadChart"
  /\ last.ret = "invalid midi number"
  /\ state = PLAYING
  /\ scoring.totalNotes > 0
  /\ chart # <<>>

\* What the chart format asks of an element: its time (timeMs, or the legacy
\* time) is a non-negative number and its midi is an integer in 0..127.
ElementTime(note) == Nullish(note.timeMs, note.time)
ElementDuration(note) ==
  Nullish(Nullish(note.durationMs, note.duration), Num(DefaultDurationMs))
ElementValid(note) ==
  /\ ElementTime(note).t = "number" /\ ElementTime(note).v >= 0
  /\ note.midi.t = "number" /\ ~note.midi.half /\ note.midi.v \in 0..MidiMax
AllElementsValid(raw) == \A i \in DOMAIN raw.notes : ElementValid(raw.notes[i])

\* C15: parseChart fails when raw is absent or raw.notes is no sequence; it
\* fails naming the index of an offending element when some element's time is
\* not a non-negative number or its midi is not an integer in [0,127]; and it
\* returns a chart only when every element passes both checks.
C15_ParseChartValidates ==
  last.op = "parseChart" =>
    LET raw == last.arg
        res == last.result
    IN IF ~raw.isObject \/ ~raw.notesIsArray
       THEN ~res.ok /\ res.chart = <<>>
       ELSE IF AllElementsValid(raw)
            THEN res.ok
            ELSE /\ ~res.ok
                 /\ res.chart = <<>>
                 /\ res.index + 1 \in DOMAIN raw.notes
                 /\ ~ElementValid(raw.notes[res.index + 1])

SetMax(S) == CHOOSE x \in S : \A y \in S : y <= x

\* C16: for a valid chart the duration parseChart returns is the maximum over
\* its notes of timeMs + durationMs (durationMs 400 when absent), and an
\* empty notes list gives notes = [], duration = 0 and noteCount = 0.
C16_DurationIsMaxEnd ==
  (last.op = "parseChart" /\ last.arg.isObject /\ last.arg.notesIsArray
     /\ AllElementsValid(last.arg)) =>
    LET raw == last.arg.notes
        res == last.result
    IN /\ res.ok
       /\ IF raw = <<>>
          THEN res.chart[1] = [notes |-> <<>>, duration |-> 0, noteCount |-> 0]
          ELSE res.chart[1].duration =
                 SetMax({ElementTime(raw[i]).v + ElementDuration(raw[i]).v : i \in DOMAIN raw})

\* The input position (1-based) of a parsed note, read from its id.
OriginalIndex(note, n) == CHOOSE i \in 1..n : note.id = "note-" \o ToString(i - 1)

\* C17: the notes parseChart returns are the input notes, each once, with id
\* "note-" and the input index; in non-decreasing timeMs order; notes of equal
\* timeMs in input order; and noteCount is the number of input notes.
C17_SortedStablePermutation ==
  (last.op = "parseChart" /\ last.result.ok) =>
    LET raw == last.arg.notes
        n == Len(raw)
        out == last.result.chart[1].notes
    IN /\ Len(out) = n
       /\ last.result.chart[1].noteCount = n
       /\ \A i \in 1..n :
            Cardinality({k \in 1..n : out[k].id = "note-" \o ToString(i - 1)}) = 1
       /\ \A k \in 1..n :
            LET src == raw[OriginalIndex(out[k], n)] IN
            /\ out[k].timeMs = ElementTime(src).v
            /\ out[k].midi = src.midi.v /\ out[k].midiHalf = src.midi.half
            /\ out[k].durationMs = ElementDuration(src).v
            /\ ~out[k].hit /\ out[k].hitResult = NullResult
       /\ \A k, l \in 1..n :
            k < l =>
              /\ out[k].timeMs <= out[l].timeMs
              /\ out[k].timeMs = out[l].timeMs =>
                   OriginalIndex(out[k], n) < OriginalIndex(out[l], n)

\* C17 witness: a chart of two different notes of the same time was parsed.
C17_Witness ==
  /\ last.op = "parseChart"
  /\ last.result.ok
  /\ Len(last.arg.notes) = 2
  /\ last.arg.notes[1].durationMs # last.arg.notes[2].durationMs
  /\ ElementTime(last.arg.notes[1]).v = ElementTime(last.arg.notes[2]).v
  /\ last.result.chart[1].notes[1].id = "note-0"

\* C18: with the pitch correct, classifyHit is PERFECT iff |d| <= perfect,
\* GREAT iff perfect < |d| <= great, GOOD iff great < |d| <= good and MISS iff
\* |d| > good, for ascending windows; with the pitch wrong it is WRONG_NOTE.
C18_ClassifyHitBoundaries ==
  last.op = "classifyHit" =>
    LET d == Abs(last.arg.deltaMs)
        w == last.arg.windows
        r == last.ret
    IN IF last.arg.correctNote
       THEN /\ r = PERFECT <=> d <= w.perfect
            /\ r = GREAT <=> (w.perfect < d /\ d <= w.great)
            /\ r = GOOD <=> (w.great < d /\ d <= w.good)
            /\ r = MISS <=> d > w.good
            /\ r \in {PERFECT, GREAT, GOOD, MISS}
       ELSE r = WRONG_NOTE

\* C18 witness: a negative delta exactly on the perfect threshold, below the
\* other two, was classified.
C18_Witness ==
  /\ last.op = "classifyHit"
  /\ last.arg.correctNote
  /\ last.arg.deltaMs = 0 - last.arg.windows.perfect
  /\ last.arg.deltaMs < 0
  /\ last.arg.windows.perfect < last.arg.windows.great
  /\ last.arg.windows.great < last.arg.windows.good
  /\ last.ret = PERFECT

\* C19: isNoteMissed and isNoteHittable are never both true; from
\* noteTime - good on exactly one of them is true; and at noteTime + good the
\* note is hittable and not missed.
C19_MissedXorHittable ==
  last.op = "noteTiming" =>
    LET nt == last.arg.noteTimeMs
        ct == last.arg.currentTimeMs
        good == last.arg.windows.good
        r == last.result
    IN /\ ~(r.missed /\ r.hittable)
       /\ ct >= nt - good => (r.missed # r.hittable)
       /\ ct = nt + good => (r.hittable /\ ~r.missed)

\* C19 witness: the two were asked at the last hittable instant of a note
\* whose window opens after time 0.
C19_Witness ==
  /\ last.op = "noteTiming"
  /\ last.arg.windows.good > 0
  /\ last.arg.noteTimeMs > last.arg.windows.good
  /\ last.arg.currentTimeMs = last.arg.noteTimeMs + last.arg.windows.good
  /\ last.result.hittable

\* The candidates findBestMatch may pick: of the pitch, unresolved, within good.
Eligible(arg) ==
  {k \in DOMAIN arg.activeNotes :
     /\ arg.activeNotes[k].midi = arg.midiNote
     /\ ~arg.activeNotes[k].hit
     /\ Abs(arg.currentTimeMs - arg.activeNotes[k].timeMs) <= arg.windows.good}

\* C20: findBestMatch returns none iff no candidate is eligible; otherwise it
\* returns the eligible candidate of least |t - timeMs|, the earliest in the
\* list among equals, with that delta and its classification.
C20_FindBestMatchPicksClosest ==
  last.op = "findBestMatch" =>
    LET arg == last.arg
        r == last.result
        dist(k) == Abs(arg.currentTimeMs - arg.activeNotes[k].timeMs)
    IN /\ r = <<>> <=> Eligible(arg) = {}
       /\ r # <<>> =>
            /\ r[1].k \in Eligible(arg)
            /\ \A j \in Eligible(arg) :
                 dist(r[1].k) < dist(j) \/ (dist(r[1].k) = dist(j) /\ r[1].k <= j)
            /\ r[1].delta = dist(r[1].k)
            /\ r[1].hitResult = classifyHit(r[1].delta, TRUE, arg.windows)

\* C20 witness: two eligible candidates at the same distance on either side of
\* t, the later note first in the list, and the first in the list returned.
C20_Witness ==
  /\ last.op = "findBestMatch"
  /\ Len(last.arg.activeNotes) = 2
  /\ Eligible(last.arg) = {1, 2}
  /\ last.arg.activeNotes[1].timeMs = last.arg.currentTimeMs + 1
  /\ last.arg.activeNotes[2].timeMs = last.arg.currentTimeMs - 1
  /\ last.result # <<>>
  /\ last.result[1].k = 1

Successes == {PERFECT, GREAT, GOOD}

\* C21: recordHit(k) on a ScoringEngine of streak s, for a success k, sets the
\* streak to s + 1, returns multiplier min(1 + floor((s + 1) / 10), 4) and
\* points base(k) * multiplier (base 100, 70, 40) and adds the points to the
\* score; for MISS and WRONG_NOTE it returns 0 points, multiplier 1, and
\* leaves the score as it is.
C21_RecordHitScoresAfterStreak ==
  [][last'.op = "recordHit" =>
       LET s == scoring.streak
           k == last'.arg.hitResult
           r == last'.result[1]
       IN IF k \in Successes
          THEN /\ scoring'.streak = s + 1
               /\ r.newStreak = s + 1
               /\ r.multiplier = Min(1 + ((s + 1) \div 10), 4)
               /\ r.basePoints = (CASE k = PERFECT -> 100 [] k = GREAT -> 70 [] k = GOOD -> 40)
               /\ r.points = r.basePoints * r.multiplier
               /\ scoring'.score = scoring.score + r.points
          ELSE /\ r.points = 0
               /\ r.multiplier = 1
               /\ scoring'.score = scoring.score]_vars

\* C21 witness: the 10th consecutive success from a zero streak was recorded
\* and scored at 2x.
C21_Witness ==
  /\ last.op = "recordHit"
  /\ last.trace = [i \in 1..10 |-> PERFECT]
  /\ scoring.streak = 10
  /\ last.result[1].multiplier = 2
  /\ last.result[1].points = 200

\* C22: calculateScore(k, s) returns the points, multiplier and basePoints
\* that recordHit(k) returns on a ScoringEngine whose streak is s, and changes
\* no state.
C22_CalculateScoreAgrees ==
  [][last'.op = "calculateScore" =>
       LET r == last'.result[1]
           rec == recordHit(scoring, last'.arg.hitResult, <<>>).result
       IN /\ last'.arg.streak = scoring.streak
          /\ scoring' = scoring
          /\ r.points = rec.points
          /\ r.multiplier = rec.multiplier
          /\ r.basePoints = rec.basePoints]_vars

\* The successes at the end of a log of recorded kinds, and the longest run of
\* successes in it.
TrailingSuccesses(log) ==
  LET failures == {i \in DOMAIN log : log[i] \notin Successes} IN
  IF failures = {} THEN Len(log)
  ELSE Len(log) - (CHOOSE i \in failures : \A j \in failures : j <= i)
LongestRun(log) ==
  LET runs == {TrailingSuccesses(SubSeq(log, 1, j)) : j \in 0..Len(log)} IN
  CHOOSE r \in runs : \A q \in runs : q <= r

StreakMatchesLog ==
  /\ scoring.streak = TrailingSuccesses(last.trace)
  /\ scoring.maxStreak = LongestRun(last.trace)
  /\ scoring.totalNotes = Len(last.trace)

\* C23: after any recordHit calls since the last reset, streak is the number
\* of successes recorded since the most recent MISS, WRONG_NOTE or reset,
\* maxStreak is the largest value streak has had since that reset, and no call
\* but reset has lowered the score.
C23_StreakCountsRun ==
  /\ []StreakMatchesLog
  /\ [][last'.op # "reset" => scoring'.score >= scoring.score]_vars

\* C23 witness: a run of MaxStreak successes, a miss, and one more success.
C23_Witness ==
  /\ last.op = "recordHit"
  /\ Len(last.trace) = MaxStreak + 2
  /\ last.trace[MaxStreak + 1] = MISS
  /\ scoring.streak = 1
  /\ scoring.maxStreak = MaxStreak

\* C24: getAccuracy() is 100 when totalNotes = 0, else the rounding of
\* 100 * (PERFECT + GREAT + GOOD counts) / totalNotes, and lies in 0..100;
\* getStars() is 3 iff accuracy >= 90, 2 iff 70 <= accuracy < 90, 1 iff
\* accuracy < 70.
C24_AccuracyAndStars ==
  last.op = "getSummary" =>
    LET a == last.summary[1].accuracy
        stars == last.summary[1].stars
        successful == scoring.hitCounts[PERFECT] + scoring.hitCounts[GREAT] + scoring.hitCounts[GOOD]
    IN /\ scoring.totalNotes = 0 => a = 100
       /\ scoring.totalNotes > 0 =>
            a = (200 * successful + scoring.totalNotes) \div (2 * scoring.totalNotes)
       /\ a \in 0..100
       /\ stars = 3 <=> a >= 90
       /\ stars = 2 <=> (70 <= a /\ a < 90)
       /\ stars = 1 <=> a < 70

\* C25: through start() and pause() over the clock, getCurrentTimeMs() is the
\* clock time elapsed while the Transport was active: it advances with the
\* clock while active and not otherwise, is left as it is by pause() and by
\* start() (so resuming continues from the frozen value), and never decreases
\* or goes negative.
C25_TimeIsActiveTime ==
  [][/\ last'.op = "clock" =>
          CurrentTime' = CurrentTime + (IF isActive(transport) THEN now' - now ELSE 0)
     /\ last'.op \in {"start", "pause"} =>
          (CurrentTime' = CurrentTime /\ last'.ret = CurrentTime)
     /\ last'.op = "start" => isActive(transport')
     /\ last'.op = "pause" => ~isActive(transport')
     /\ CurrentTime' >= CurrentTime
     /\ CurrentTime' >= 0]_vars

\* C25 witness: the Transport has been resumed after a pause that lasted, and
\* shows less time than the clock has run since its start.
C25_Witness ==
  /\ last.op = "start"
  /\ transport.pausedDuration > 0
  /\ CurrentTime > 0
  /\ CurrentTime < now - transport.startTime

\* C26: right after seekTo(t) getCurrentTimeMs() returns t, whether the
\* Transport was idle, active or paused; a paused Transport stays paused,
\* frozen at t while the clock runs; and start() continues from the time
\* shown, with no jump.
C26_SeekToLandsOnTime ==
  [][/\ last'.op = "seekTo" =>
          /\ last'.ret = last'.arg
          /\ CurrentTime' = last'.arg
          /\ transport.isPaused => (transport'.isPaused /\ transport'.isPlaying)
          /\ ~transport.isPaused => isActive(transport')
     /\ (last'.op = "clock" /\ transport.isPaused) => CurrentTime' = CurrentTime
     /\ last'.op = "start" => (CurrentTime' = CurrentTime /\ isActive(transport'))]_vars

\* C26 witness: a paused Transport has just been sought back, late on the
\* clock, to a time other than zero.
C26_Witness ==
  /\ last.op = "seekTo"
  /\ transport.isPaused
  /\ now = LateInstantMs
  /\ last.arg = 2 * ClockStepMs
  /\ CurrentTime = last.arg

\* The notes of the parsed chart are as parseChart left them.
ChartUnmarked ==
  chart # <<>> =>
    /\ \A i \in 1..Len(chart[1].notes) :
         ~chart[1].notes[i].hit /\ chart[1].notes[i].hitResult = NullResult
    /\ chart[1].noteCount = Len(chart[1].notes)

\* C27: no engine operation other than loadChart changes the parsed chart:
\* through key presses, ticks, pause, resume, stop and restart its notes keep
\* hit = false and no hitResult, and its duration and noteCount stay as they
\* were.
C27_ChartNeverModified ==
  /\ []ChartUnmarked
  /\ [][last'.op # "loadChart" => chart' = chart]_vars

\* C27 witness: the working set holds a note resolved by a key press and a
\* note resolved as a miss, while the chart's notes are unresolved.
C27_Witness ==
  /\ chart # <<>>
  /\ \E i, j \in DOMAIN notes :
       /\ notes[i].hit /\ notes[i].hitResult \in Successes
       /\ notes[j].hit /\ notes[j].hitResult = MISS
  /\ \A i \in 1..Len(chart[1].notes) : ~chart[1].notes[i].hit

\* C28: nothing the engine hands to the host is or holds a reference to a
\* working note or to the working array: a write by the host to a value it
\* received changes neither the working set nor the score state.
C28_HandedValuesAreCopies ==
  [][last'.op = "hostWrite" => (notes' = notes /\ scoring' = scoring)]_vars

\* A working note is unresolved with no result, or resolved with a result a
\* note can have.
ResultsWellFormed ==
  \A i \in DOMAIN notes :
    IF notes[i].hit THEN notes[i].hitResult \in Successes \cup {MISS}
    ELSE notes[i].hitResult = NullResult

\* C29: a working note ends with PERFECT, GREAT or GOOD only through a key
\* press of its own pitch at a transport time t with |t - timeMs| <= good, and
\* the result is classifyHit(|t - timeMs|); it ends with MISS only through a
\* tick at a time t > timeMs + good; a resolved note keeps its result until
\* the working set is renewed.
C29_ResolutionsAreJustified ==
  /\ []ResultsWellFormed
  /\ [][IF last'.op \in SessionEnds
        THEN notes' = notes \/ Resolved(notes') = {}
        ELSE /\ DOMAIN notes' = DOMAIN notes
             /\ \A i \in DOMAIN notes :
                  LET delta == Abs(CurrentTime - notes[i].timeMs) IN
                  IF notes[i].hit THEN notes'[i] = notes[i]
                  ELSE notes'[i].hit =>
                         IF notes'[i].hitResult \in Successes
                         THEN /\ last'.op = "handleKeyPress"
                              /\ last'.arg = notes[i].midi
                              /\ ~notes[i].midiHalf
                              /\ delta <= hitWindows.good
                              /\ notes'[i].hitResult = classifyHit(delta, TRUE, hitWindows)
                         ELSE /\ notes'[i].hitResult = MISS
                              /\ last'.op = "frame"
                              /\ CurrentTime > notes[i].timeMs + hitWindows.good]_vars

\* C29 witness: a tick has just resolved a note as a MISS, while the other
\* note stands resolved as GREAT by a key press off its time.
C29_Witness ==
  /\ last.op = "frame"
  /\ Count(last.trace, "onNoteMiss") = 1
  /\ \E i, j \in DOMAIN notes :
       /\ notes[i].hit /\ notes[i].hitResult = GREAT
       /\ notes[j].hit /\ notes[j].hitResult = MISS

\* The unresolved notes a tick at the current transport time finds past
\* their good window.
LateNotes ==
  {i \in DOMAIN notes :
     ~notes[i].hit /\ CurrentTime > notes[i].timeMs + hitWindows.good}

\* The k-th of a set of positions, in working-set order.
NthOf(S, k) == CHOOSE i \in S : Cardinality({j \in S : j < i}) = k - 1

JustFinished ==
  /\ state = FINISHED
  /\ Resolved(notes) = DOMAIN notes
  /\ last.op = "frame"
  /\ Count(last.trace, "onFinish") = 1

\* C31: once a chart is loaded and the engine is PLAYING with the clock still
\* to run, and no pause, stop, restart or loadChart follows, then, if the
\* frames requested keep firing, the clock leads to a tick that finds every
\* note resolved, sets FINISHED and emits onFinish, whatever keys are pressed.
C31_SessionFinishes ==
  []<>(pending = {} \/ last.op = "frame") =>
    ((state = PLAYING /\ chart # <<>> /\ now <= LastStartMs) ~> JustFinished)

\* C31 witness: a session of two notes has just finished, one note hit by a
\* key press and the other missed, started after the clock had run.
C31_Witness ==
  /\ JustFinished
  /\ Len(notes) = 2
  /\ scoring.hitCounts[MISS] = 1
  /\ scoring.totalNotes - scoring.hitCounts[MISS] - scoring.hitCounts[WRONG_NOTE] = 1
  /\ now > LateInstantMs

\* The unresolved notes not past their good window at the current transport
\* time.
OpenNotes ==
  {i \in DOMAIN notes :
     ~notes[i].hit /\ CurrentTime <= notes[i].timeMs + hitWindows.good}

\* C32: while the engine is PAUSED the clock, key presses and stray frames
\* change no working note, no score field and not the transport time; pause()
\* and resume() leave the transport time as it is, so after resume() it is the
\* time of the pause, and a tick at the resume instant misses no note that
\* was unresolved and within its good window at the pause.
C32_PauseFreezes ==
  [][/\ (state = PAUSED /\ last'.op \in {"clock", "handleKeyPress", "frame"}) =>
          (notes' = notes /\ scoring' = scoring /\ state' = PAUSED
           /\ CurrentTime' = CurrentTime)
     /\ last'.op = "pause" => (state' = PAUSED /\ CurrentTime' = CurrentTime)
     /\ (state = PAUSED /\ last'.op = "resume") =>
          /\ CurrentTime' = CurrentTime
          /\ notes' = notes
          /\ \A i \in OpenNotes : ~SweepMisses(notes'[i], CurrentTime')
     /\ (last.op = "resume" /\ last'.op = "frame") =>
          \A i \in OpenNotes : notes'[i] = notes[i]]_vars

\* C32 witness: the engine has just been resumed after a long pause, with a
\* note still unresolved and within its good window.
C32_Witness ==
  /\ last.op = "resume"
  /\ state = PLAYING
  /\ now = LateInstantMs
  /\ transport.pausedDuration > GoodWindowMs
  /\ CurrentTime > 0
  /\ OpenNotes # {}

\* C33: in PLAYING, at any one instant, update() followed by handleKeyPress(p)
\* leaves the same working notes (hit, hitResult) and the same score, streak,
\* maxStreak, hitCounts and totalNotes as handleKeyPress(p) followed by
\* update().
C33_TickAndKeyCommute ==
  (state = PLAYING /\ chart # <<>>) =>
    \A p \in Pitches : Outcome(TickThenKey(p)) = Outcome(KeyThenTick(p))

\* C34: in every state the public operations reach, the state PLAYING implies
\* that a chart is loaded.
C34_PlayingHasChart == state = PLAYING => chart # <<>>

\* C35: the engine state and the Transport agree: PLAYING iff the Transport is
\* active, PAUSED iff it is paused, IDLE or FINISHED iff it is idle.
C35_StateMatchesTransport ==
  /\ state = PLAYING <=> isActive(transport)
  /\ state = PAUSED <=> (transport.isPlaying /\ transport.isPaused)
  /\ state \in {IDLE, FINISHED} <=> ~transport.isPlaying

\* C36: whenever an operation other than resume() from PAUSED takes the
\* engine into PLAYING, every working note is unresolved, the score state is
\* zero and the Transport time is 0.
C36_PlayingStartsClean ==
  [][(state # PLAYING /\ state' = PLAYING /\ ~(state = PAUSED /\ last'.op = "resume")) =>
       (Resolved(notes') = {} /\ scoring' = ScoringReset /\ CurrentTime' = 0)]_vars

\* C37: at every moment at most one frame callback is pending for the
\* engine.
C37_OneLoop == Cardinality(pending) <= 1

\* C38: with the default (ascending) hit windows no working note ever has the
\* result WRONG_NOTE, and every result handleKeyPress returns, which is the
\* one handed to onNoteHit, is PERFECT, GREAT or GOOD and is the result
\* written on the note.
C38_ReturnedResultsAreSuccesses ==
  /\ \A i \in DOMAIN notes : notes[i].hitResult # WRONG_NOTE
  /\ (last.op = "handleKeyPress" /\ last.ret = "hit") =>
       /\ last.result[1].hitResult \in Successes
       /\ notes[last.result[1].note].hitResult = last.result[1].hitResult
       /\ Count(last.trace, "onNoteHit") = 1
  /\ (last.op = "handleKeyPress" /\ last.ret # "hit") =>
       (last.result = <<>> /\ Count(last.trace, "onNoteHit") = 0)

\* C38 witness: after a wrong note was recorded, a key press on the edge of
\* the good window has just returned GOOD.
C38_Witness ==
  /\ last.op = "handleKeyPress"
  /\ last.ret = "hit"
  /\ last.result[1].hitResult = GOOD
  /\ Abs(CurrentTime - notes[last.result[1].note].timeMs) = hitWindows.good
  /\ scoring.hitCounts[WRONG_NOTE] = 1

\* The sum of the five hit counts.
SumOfHitCounts ==
  scoring.hitCounts[PERFECT] + scoring.hitCounts[GREAT] + scoring.hitCounts[GOOD]
    + scoring.hitCounts[MISS] + scoring.hitCounts[WRONG_NOTE]

ScoreSheetBalanced ==
  /\ scoring.totalNotes = SumOfHitCounts
  /\ Len(scoring.mistakes) = scoring.hitCounts[MISS] + scoring.hitCounts[WRONG_NOTE]
  /\ \A k \in DOMAIN scoring.mistakes : scoring.mistakes[k].hitResult \in {MISS, WRONG_NOTE}

\* C39: in every engine state totalNotes is the sum of the five hit counts
\* and the mistakes log is as long as the MISS and WRONG_NOTE counts
\* together; between resets (stop, restart, loadChart) the log is only ever
\* appended to.
C39_ScoreSheetBalanced ==
  /\ []ScoreSheetBalanced
  /\ [][IF last'.op \in SessionEnds
        THEN scoring'.mistakes = <<>> \/ scoring' = scoring
        ELSE /\ Len(scoring'.mistakes) >= Len(scoring.mistakes)
             /\ SubSeq(scoring'.mistakes, 1, Len(scoring.mistakes)) = scoring.mistakes]_vars

\* C39 witness: a session has recorded a hit, then a wrong note, then a miss.
C39_Witness ==
  /\ scoring.totalNotes = 3
  /\ Len(scoring.mistakes) = 2
  /\ scoring.mistakes[1].hitResult = WRONG_NOTE
  /\ scoring.mistakes[2].hitResult = MISS
  /\ last.op = "frame"

\* A progress value is a number from 0 to 1.
ProgressInUnitInterval(p) == ~p.nan /\ p.den > 0 /\ 0 <= p.num /\ p.num <= p.den

\* C40: the progress value of every update event and of every getRenderState
\* result is a number from 0 to 1, whatever chart is loaded and whatever the
\* engine state.
C40_ProgressInUnitInterval ==
  /\ last.update # <<>> => ProgressInUnitInterval(last.update[1].progress)
  /\ last.op = "getRenderState" => ProgressInUnitInterval(last.result[1].progress)
====
